---------------------------- MODULE Spec2Model ----------------------------
(***************************************************************************)
(* A model of src/pre_processing/convert_mat_to_jpg.py: the conversion of  *)
(* MATLAB containers (Chip_*.mat) into five JPEG files each.               *)
(*                                                                         *)
(* Strings that the program takes apart (file names, container keys) are   *)
(* tuples of one-character strings, so that glob matching, the CHIP_RE     *)
(* match, Path.stem, str.lower and sorting are computed, not assumed.      *)
(*                                                                         *)
(* An array is a record [kind, shape, data]: kind is numpy's dtype.kind,   *)
(* shape the tuple of axis sizes and data the element buffer.  Shape and   *)
(* buffer are kept independent: no operation of the program relates them   *)
(* (_to_uint8 is elementwise plus one global maximum, x[:, :, 0] and       *)
(* np.transpose are views over the same buffer).  An element of an integer *)
(* buffer is an integer; an element of a float buffer is a record          *)
(* [nan, num]: NaN, or the value num / FDen.                               *)
(***************************************************************************)
EXTENDS Integers, Sequences, FiniteSets, TLC

VARIABLES
    entry,      \* which function of the module was called: "main", "extract", "save", "uint8"
    pc,         \* position of the running call
    dir,        \* the names of the files present in INPUT_DIR
    mats,       \* main: the sorted list of discovered files
    k,          \* main: index in mats of the file being (or last) processed
    total,      \* main: the running total
    console,    \* the lines printed so far
    exitStatus, \* "running", "ok", "fatal" (SystemExit with a message), "raised"
    outDir,     \* whether OUTPUT_DIR exists
    disk,       \* the JPEG files of OUTPUT_DIR: output name -> encoded array
    path,       \* extract_from_mat: mat_path.name
    mat,        \* extract_from_mat: the loaded container
    frames,     \* extract_from_mat: the normalised frame list
    chip_id,    \* extract_from_mat: the chip identifier
    i,          \* extract_from_mat: the loop index (0 outside the loop)
    exc,        \* the exception in flight (NoExc when none)
    encIn,      \* the array last handed to Image.fromarray (NoArray before the first)
    arg,        \* the argument of a direct call of _save_jpg or _to_uint8
    ret,        \* the result of a direct call of _to_uint8 or _save_jpg
    attempts,   \* history: the file names handed to extract_from_mat, in order
    writes,     \* history: the JPEG writes, in order: [file, name, frame]
    reads       \* history: the frame indices read by the current call of extract_from_mat

vars == <<entry, pc, dir, mats, k, total, console, exitStatus, outDir, disk,
          path, mat, frames, chip_id, i, exc, encIn, arg, ret,
          attempts, writes, reads>>

-----------------------------------------------------------------------------
(* Bounds of the model *)

MaxFiles == 2       \* files in INPUT_DIR
MaxFrames == 6      \* elements of an Icolor collection
MaxLen == 3         \* elements of an array buffer in a direct call of _to_uint8
MaxDims == 3        \* axes of an array in a direct call of _save_jpg

(* Program constants *)

NFrames == 5        \* range(1, 6); len(frames) < 5; total += 5
ClipMax == 255      \* np.clip(x, 0, 255); x * 255.0
MinSide == 32       \* x.shape[1] > 32 and x.shape[2] > 32
FDen == 4           \* denominator of the modelled float values (1.0 is FDen/FDen)

-----------------------------------------------------------------------------
(* Characters and strings *)

\* ord(c) for the characters in use
Ord(c) ==
    CASE c = "." -> 46 [] c = "0" -> 48 [] c = "1" -> 49 [] c = "2" -> 50
      [] c = "3" -> 51 [] c = "4" -> 52 [] c = "5" -> 53 [] c = "7" -> 55
      [] c = "A" -> 65 [] c = "C" -> 67 [] c = "H" -> 72 [] c = "I" -> 73
      [] c = "L" -> 76 [] c = "M" -> 77 [] c = "O" -> 79 [] c = "P" -> 80
      [] c = "R" -> 82 [] c = "T" -> 84 [] c = "_" -> 95 [] c = "a" -> 97
      [] c = "c" -> 99 [] c = "d" -> 100 [] c = "e" -> 101
      [] c = "g" -> 103 [] c = "h" -> 104 [] c = "i" -> 105 [] c = "j" -> 106
      [] c = "l" -> 108 [] c = "m" -> 109 [] c = "o" -> 111 [] c = "p" -> 112
      [] c = "r" -> 114 [] c = "t" -> 116 [] c = "v" -> 118 [] c = "x" -> 120

\* str.lower on one character
LowerChar(c) ==
    CASE c = "A" -> "a" [] c = "C" -> "c" [] c = "H" -> "h" [] c = "I" -> "i"
      [] c = "L" -> "l" [] c = "M" -> "m" [] c = "O" -> "o" [] c = "P" -> "p"
      [] c = "R" -> "r" [] c = "T" -> "t"
      [] OTHER -> c

\* str.lower
Lower(s) == [n \in 1..Len(s) |-> LowerChar(s[n])]

IsDigit(c) == c \in {"0", "1", "2", "3", "4", "5", "7"}

\* s.startswith(p)
StartsWith(s, p) == Len(s) >= Len(p) /\ SubSeq(s, 1, Len(p)) = p

\* s < t for Python strings: code point order, a proper prefix first
RECURSIVE StrLess(_, _)
StrLess(s, t) ==
    IF t = <<>> THEN FALSE
    ELSE IF s = <<>> THEN TRUE
    ELSE IF Ord(Head(s)) # Ord(Head(t)) THEN Ord(Head(s)) < Ord(Head(t))
    ELSE StrLess(Tail(s), Tail(t))

\* sorted(S) for a set of strings
RECURSIVE SortedSeq(_)
SortedSeq(S) ==
    IF S = {} THEN <<>>
    ELSE LET m == CHOOSE x \in S : \A y \in S \ {x} : StrLess(x, y)
         IN <<m>> \o SortedSeq(S \ {m})

\* str(n) for the loop index
DigitStr(n) ==
    CASE n = 1 -> <<"1">> [] n = 2 -> <<"2">> [] n = 3 -> <<"3">>
      [] n = 4 -> <<"4">> [] n = 5 -> <<"5">>

-----------------------------------------------------------------------------
(* Module constants *)

FILE_GLOB == <<"C", "h", "i", "p", "_", "*", ".", "m", "a", "t">>
PREFIX == <<"i", "m", "a", "g", "e", "m">>
WANTED == <<"I", "c", "o", "l", "o", "r">>

\* fnmatch of one path component against a pattern with "*" (case-sensitive on POSIX)
RECURSIVE GlobMatch(_, _)
GlobMatch(p, s) ==
    IF p = <<>> THEN s = <<>>
    ELSE IF Head(p) = "*"
         THEN GlobMatch(Tail(p), s) \/ (s # <<>> /\ GlobMatch(p, Tail(s)))
         ELSE s # <<>> /\ Head(s) = Head(p) /\ GlobMatch(Tail(p), Tail(s))

\* CHIP_RE.match(name): ^Chip_(\d+)\.mat$ with re.IGNORECASE.  The names of the
\* model hold no newline (before a trailing one, $ would match too) and only
\* ASCII digits.
ChipReMatches(name) ==
    /\ Len(name) >= 10
    /\ Lower(SubSeq(name, 1, 5)) = <<"c", "h", "i", "p", "_">>
    /\ Lower(SubSeq(name, Len(name) - 3, Len(name))) = <<".", "m", "a", "t">>
    /\ \A n \in 6..(Len(name) - 4) : IsDigit(name[n])

\* m.group(1)
ChipReGroup1(name) == SubSeq(name, 6, Len(name) - 4)

\* Path.stem: the name without its last suffix
Stem(name) ==
    LET dots == {n \in 1..Len(name) : name[n] = "."}
        last == IF dots = {} THEN 0 ELSE CHOOSE n \in dots : \A d \in dots : d <= n
    IN IF 1 < last /\ last < Len(name) THEN SubSeq(name, 1, last - 1) ELSE name

ChipIdStemOnly(name) == Stem(name)

\* chip_id = m.group(1) if m else mat_path.stem
ChipId(name) == IF ChipReMatches(name) THEN ChipReGroup1(name) ELSE Stem(name)

\* out_name = f"{PREFIX}_{chip_id}_{i}.jpg"
OutName(id, n) == PREFIX \o <<"_">> \o id \o <<"_">> \o DigitStr(n) \o <<".", "j", "p", "g">>

-----------------------------------------------------------------------------
(* _to_uint8 *)

NaN == [nan |-> TRUE, num |-> 0]
Flt(num) == [nan |-> FALSE, num |-> num]

Min2(a, b) == IF a < b THEN a ELSE b
Max2(a, b) == IF a > b THEN a ELSE b

\* np.clip(v, lo, hi) on one element
Clip(v, lo, hi) == Min2(Max2(v, lo), hi)

\* np.nanmax(x) <= 1.0 for a float buffer: the maximum ignores NaN; an all-NaN
\* buffer has maximum NaN, and NaN <= 1.0 is False
NanMaxLeOne(data) ==
    LET nums == {data[n].num : n \in {m \in 1..Len(data) : ~data[m].nan}}
    IN nums # {} /\ \A v \in nums : v <= FDen

ToUint8Wrap(img, nanCast) ==
    [ok |-> TRUE, kind |-> "u", shape |-> img.shape,
     data |-> [n \in 1..Len(img.data) |->
                  IF img.kind = "f" THEN nanCast ELSE img.data[n] % (ClipMax + 1)]]

\* _to_uint8(img).  nanCast is what the platform's float -> uint8 conversion makes
\* of NaN (the conversion is undefined for NaN).  The result is [ok |-> FALSE, err]
\* when numpy raises: np.nanmax of an empty float array, np.clip of a string array.
ToUint8(img, nanCast) ==
    IF img.kind = "U" THEN [ok |-> FALSE, err |-> "UFuncTypeError"]
    ELSE IF img.kind = "f"
    THEN IF img.data = <<>> THEN [ok |-> FALSE, err |-> "ValueError"]
         ELSE LET scale == IF NanMaxLeOne(img.data) THEN ClipMax ELSE 1
              IN [ok |-> TRUE, kind |-> "u", shape |-> img.shape,
                  data |-> [n \in 1..Len(img.data) |->
                               IF img.data[n].nan THEN nanCast
                               ELSE Clip(img.data[n].num * scale, 0, ClipMax * FDen) \div FDen]]
    ELSE [ok |-> TRUE, kind |-> "u", shape |-> img.shape,
          data |-> [n \in 1..Len(img.data) |-> Clip(img.data[n], 0, ClipMax)]]

-----------------------------------------------------------------------------
(* _save_jpg *)

NoArray == [kind |-> "none", shape |-> <<>>, data |-> <<>>]

\* if x.ndim == 3 and x.shape[2] == 1: x = x[:, :, 0]
Squeeze(shape) ==
    IF Len(shape) = 3 /\ shape[3] = 1 THEN <<shape[1], shape[2]>> ELSE shape

ChannelLastAtLeast(shape) ==
    IF /\ Len(shape) = 3
       /\ shape[1] \in {1, 3, 4}
       /\ shape[2] >= MinSide
       /\ shape[3] >= MinSide
    THEN <<shape[2], shape[3], shape[1]>>
    ELSE shape

\* if x.ndim == 3 and x.shape[0] in (1, 3, 4) and x.shape[1] > 32 and x.shape[2] > 32:
\*     x = np.transpose(x, (1, 2, 0))
ChannelLast(shape) ==
    IF /\ Len(shape) = 3
       /\ shape[1] \in {1, 3, 4}
       /\ shape[2] > MinSide
       /\ shape[3] > MinSide
    THEN <<shape[2], shape[3], shape[1]>>
    ELSE shape

\* the two shape rules of _save_jpg, in the order of the code
ShapeCorrect(shape) == ChannelLast(Squeeze(shape))

\* Image.fromarray(x).save(..., format="JPEG") on a uint8 array: Pillow maps a 1-D or
\* 2-D array to mode L and (H,W,2), (H,W,3), (H,W,4) to LA, RGB, RGBA, and raises for
\* any other shape; the JPEG writer raises for the modes LA and RGBA.
EncoderAccepts(x) ==
    /\ \A n \in 1..Len(x.shape) : x.shape[n] >= 1
    /\ \/ Len(x.shape) \in {1, 2}
       \/ Len(x.shape) = 3 /\ x.shape[3] = 3

\* _save_jpg(img, out_path): [ok, handed, x, err].  handed: Image.fromarray was
\* called, with x.  ioOk: the file system accepts the write.  Whatever line 38
\* raises (Pillow rejecting the array, the write failing) is the one SaveError.
SaveJpg(img, nanCast, ioOk) ==
    LET u == ToUint8(img, nanCast)
    IN IF ~u.ok
       THEN [ok |-> FALSE, handed |-> FALSE, x |-> NoArray, err |-> u.err]
       ELSE LET x == [kind |-> u.kind, shape |-> ShapeCorrect(u.shape), data |-> u.data]
            IN IF ~EncoderAccepts(x)
               THEN [ok |-> FALSE, handed |-> TRUE, x |-> x, err |-> "SaveError"]
               ELSE IF ~ioOk
               THEN [ok |-> FALSE, handed |-> TRUE, x |-> x, err |-> "SaveError"]
               ELSE [ok |-> TRUE, handed |-> TRUE, x |-> x, err |-> "none"]

-----------------------------------------------------------------------------
(* Containers: what loadmat returns.  A container is [corrupt, items]; items is
   the dict in insertion order, a sequence of [key, val]; a value is [form, rows]:
   an object array (rows is its rows), a list, another iterable, or a scalar. *)

KHeader == <<"_", "_", "h", "e", "a", "d", "e", "r", "_", "_">>
KUpper == <<"I", "C", "O", "L", "O", "R">>
KLower == <<"i", "c", "o", "l", "o", "r">>
KOther == <<"o", "t", "h", "e", "r", "_", "v", "a", "r">>
KUnder == <<"_", "x">>

RECURSIVE Flatten(_)
Flatten(rows) == IF rows = <<>> THEN <<>> ELSE Head(rows) \o Flatten(Tail(rows))

FindKeyExact(d, wanted) ==
    LET hits == {n \in 1..Len(d) : d[n].key = wanted}
    IN IF hits = {} THEN 0 ELSE CHOOSE n \in hits : \A h \in hits : n <= h

\* _find_key_case_insensitive(d, wanted): the position in d of the first key whose
\* lower() equals wanted.lower(); 0 for None
FindKeyCaseInsensitive(d, wanted) ==
    LET hits == {n \in 1..Len(d) : Lower(d[n].key) = Lower(wanted)}
    IN IF hits = {} THEN 0 ELSE CHOOSE n \in hits : \A h \in hits : n <= h

\* keys = [k for k in mat.keys() if not k.startswith("__")]
DebugKeys(d) ==
    LET F[n \in 0..Len(d)] ==
            IF n = 0 THEN <<>>
            ELSE IF StartsWith(d[n].key, <<"_", "_">>) THEN F[n - 1]
            ELSE Append(F[n - 1], d[n].key)
    IN F[Len(d)]

\* lines 60-69: the frame list of an Icolor value, [ok, frames]
NormalizeFrames(ic) ==
    IF ic.form = "objarray" THEN [ok |-> TRUE, frames |-> Flatten(ic.rows)]
    ELSE IF ic.form \in {"list", "iterable"} THEN [ok |-> TRUE, frames |-> ic.rows[1]]
    ELSE [ok |-> FALSE, frames |-> <<>>]

\* frames[i - 1] of the loop over range(1, 6)
FrameAt(fr, n) == fr[n]

(* Exceptions *)

NoExc == [type |-> "none", keys |-> <<>>, count |-> 0]
NotFoundError(keys) == [type |-> "IcolorNotFound", keys |-> keys, count |-> 0]
FormatError == [type |-> "UnexpectedFormat", keys |-> <<>>, count |-> 0]
TooFewErrorExpected(n) == [type |-> "TooFewFrames", keys |-> <<>>, count |-> NFrames]
TooFewError(n) == [type |-> "TooFewFrames", keys |-> <<>>, count |-> n]
LoadError == [type |-> "LoadError", keys |-> <<>>, count |-> 0]
FrameError(e) == [type |-> e, keys |-> <<>>, count |-> 0]

(* The inputs the model draws *)

Side == 64

\* frame number n of a collection; its buffer holds n, so that frames are told apart
MkFrame(t, n) ==
    CASE t = "rgb"  -> [kind |-> "u", shape |-> <<Side, Side, 3>>, data |-> <<n>>]
      [] t = "gray" -> [kind |-> "i", shape |-> <<Side, Side, 1>>, data |-> <<n>>]
      [] t = "chw1" -> [kind |-> "u", shape |-> <<1, Side, Side>>, data |-> <<n>>]
      [] t = "rgba" -> [kind |-> "u", shape |-> <<Side, Side, 4>>, data |-> <<n>>]
      [] t = "str"  -> [kind |-> "U", shape |-> <<>>, data |-> <<n>>]

\* n frames of type good, frame number badAt (if any) of type bad
Row(n, good, badAt, bad) ==
    [j \in 1..n |-> MkFrame(IF j = badAt THEN bad ELSE good, j)]

Scalar == [form |-> "scalar", rows |-> <<>>]

Value(form, row) ==
    IF form = "objarray2d"
    THEN [form |-> "objarray",
          rows |-> <<SubSeq(row, 1, Len(row) \div 2),
                     SubSeq(row, Len(row) \div 2 + 1, Len(row))>>]
    ELSE [form |-> form, rows |-> <<row>>]

Item(key, val) == [key |-> key, val |-> val]

Container(items) == [corrupt |-> FALSE, items |-> items]

Corrupt == [corrupt |-> TRUE, items |-> <<>>]

NoContainer == [corrupt |-> FALSE, items |-> <<>>]

\* the containers of a run of main: an Icolor collection of 0..MaxFrames frames, of
\* which the first may be one that does not encode, and one container per other
\* failure (a later frame fails when the file system refuses the write)
ContainersMain ==
    {Container(<<Item(KHeader, Scalar),
                 Item(WANTED, Value("objarray", Row(p[1], "rgb", p[2], "chw1")))>>) :
        p \in {q \in (0..MaxFrames) \X {0, 1} : q[2] = 0 \/ q[1] >= NFrames}}
    \cup {Container(<<Item(KHeader, Scalar), Item(KOther, Scalar)>>),
          Container(<<Item(KHeader, Scalar), Item(KUpper, Scalar)>>),
          Corrupt}

Layouts(val) ==
    {<<Item(KHeader, Scalar), Item(WANTED, val)>>,
     <<Item(KHeader, Scalar), Item(KUpper, val)>>,
     <<Item(KHeader, Scalar), Item(KOther, Scalar), Item(KLower, val)>>,
     <<Item(KHeader, Scalar), Item(KLower, val), Item(KUpper, Scalar)>>,
     <<Item(KHeader, Scalar), Item(KOther, val)>>,
     <<Item(KHeader, val)>>,
     <<Item(KHeader, Scalar), Item(KUnder, Scalar), Item(KOther, val)>>}

\* the containers of a direct call of extract_from_mat
ContainersDirect ==
    {Container(l) : l \in UNION {Layouts(Value(form, Row(n, good, b, bad))) :
        form \in {"objarray", "objarray2d", "list", "iterable"},
        n \in 0..MaxFrames, good \in {"rgb", "gray"}, b \in 0..MaxFrames,
        bad \in {"chw1", "str", "rgba"}}}
    \cup {Container(l) : l \in Layouts(Scalar)}
    \cup {Corrupt}

NChip2 == <<"C", "h", "i", "p", "_", "2", ".", "m", "a", "t">>
NChip10 == <<"C", "h", "i", "p", "_", "1", "0", ".", "m", "a", "t">>
NChipA == <<"C", "h", "i", "p", "_", "a", ".", "m", "a", "t">>
NLower3 == <<"c", "h", "i", "p", "_", "3", ".", "m", "a", "t">>
NTxt7 == <<"C", "h", "i", "p", "_", "7", ".", "t", "x", "t">>
NUpper7 == <<"C", "H", "I", "P", "_", "7", ".", "M", "A", "T">>
NNoDigits == <<"C", "h", "i", "p", "_", ".", "m", "a", "t">>
NTwoDots == <<"C", "h", "i", "p", "_", "1", ".", "2", ".", "m", "a", "t">>
NShort == <<"x", ".", "m", "a", "t">>
NNoSuffix == <<"C", "h", "i", "p", "_", "5">>

\* the names a file of INPUT_DIR may have
DirNames == {NChip2, NChip10, NChipA, NLower3}

\* the names of the files handed to a direct call of extract_from_mat
DirectNames == DirNames \cup {NTxt7, NUpper7, NNoDigits, NTwoDots, NShort, NNoSuffix}

Dims == {1, 3, 4, 5, 16, 32, 33, 64}

\* the shapes of a direct call of _save_jpg
Shapes == UNION {[1..d -> Dims] : d \in 1..MaxDims}

\* the element buffers of a direct call of _save_jpg: unsigned, float, str
SaveBuffers ==
    <<[kind |-> "u", data |-> <<7, 200>>],
      [kind |-> "f", data |-> <<Flt(2), Flt(FDen)>>],
      [kind |-> "U", data |-> <<0>>]>>

\* the arrays of a direct call of _save_jpg that hold buffer b
SaveArgs(b) == {[kind |-> b.kind, shape |-> sh, data |-> b.data] : sh \in Shapes}

IntVals == {-300, -1, 0, 1, 128, 255, 256, 511}
FloatVals == {NaN, Flt(-1), Flt(0), Flt(1), Flt(FDen), Flt(FDen + 1), Flt(ClipMax * FDen),
              Flt(ClipMax * FDen + 1), Flt((ClipMax + 1) * FDen), Flt(2000)}

Buffers(V) == UNION {[1..n -> V] : n \in 0..MaxLen}

\* the element values of a direct call of _to_uint8, by dtype kind (signed,
\* unsigned, bool, float, str)
ValuesOf(kind) ==
    CASE kind = "i" -> IntVals
      [] kind = "u" -> {v \in IntVals : v >= 0}
      [] kind = "b" -> {0, 1}
      [] kind = "f" -> FloatVals
      [] kind = "U" -> {0}

Kinds == {"i", "u", "b", "f", "U"}

\* the arrays of a direct call of _to_uint8 of one dtype kind
Uint8Args(kind) ==
    {[kind |-> kind, shape |-> <<Len(d)>>, data |-> d] : d \in Buffers(ValuesOf(kind))}

\* what the platform's conversion of NaN to uint8 may give
NanCasts == {0, ClipMax}

-----------------------------------------------------------------------------
(* State *)

NoResult == [ok |-> FALSE, handed |-> FALSE, x |-> NoArray, err |-> "none"]

Line(tag, file, e, n) == [tag |-> tag, file |-> file, exc |-> e, total |-> n]

JpgArg == <<"x", ".", "j", "p", "g">>

InitCommon ==
    /\ mats = <<>>
    /\ k = 0
    /\ total = 0
    /\ console = <<>>
    /\ exitStatus = "running"
    /\ outDir = FALSE
    /\ disk = <<>>
    /\ mat = NoContainer
    /\ frames = <<>>
    /\ chip_id = <<>>
    /\ i = 0
    /\ exc = NoExc
    /\ encIn = NoArray
    /\ ret = NoResult
    /\ attempts = <<>>
    /\ writes = <<>>
    /\ reads = {}

\* the script is run: main() on a directory of at most MaxFiles files
Init ==
    /\ entry = "main"
    /\ pc = "main"
    /\ dir \in {S \in SUBSET DirNames : Cardinality(S) <= MaxFiles}
    /\ path = <<>>
    /\ arg = NoArray
    /\ InitCommon

\* extract_from_mat(mat_path) is called by an importer of the module
InitExtract ==
    /\ entry = "extract"
    /\ pc = "load"
    /\ dir = {}
    /\ path \in DirectNames
    /\ arg = NoArray
    /\ InitCommon

\* _save_jpg(img, out_path) is called by an importer of the module
InitSave ==
    /\ entry = "save"
    /\ pc = "save"
    /\ dir = {}
    /\ path = <<>>
    /\ \E n \in 1..Len(SaveBuffers) : arg \in SaveArgs(SaveBuffers[n])
    /\ InitCommon

\* _to_uint8(img) is called by an importer of the module
InitUint8 ==
    /\ entry = "uint8"
    /\ pc = "uint8"
    /\ dir = {}
    /\ path = <<>>
    /\ \E kind \in Kinds : arg \in Uint8Args(kind)
    /\ InitCommon

mainVars == <<mats, k, total>>
extractVars == <<path, mat, frames, chip_id, i, reads>>
fsVars == <<outDir, disk, writes, encIn>>
callVars == <<arg, ret>>

-----------------------------------------------------------------------------
(* main *)

Reverse(q) == [n \in 1..Len(q) |-> q[Len(q) + 1 - n]]

DiscoverUnsorted(d) == Reverse(SortedSeq({n \in d : GlobMatch(FILE_GLOB, n)}))

DiscoverAll(d) == SortedSeq(d)

\* mats = sorted(INPUT_DIR.glob(FILE_GLOB))
Discover(d) == SortedSeq({n \in d : GlobMatch(FILE_GLOB, n)})

\* lines 86-90: discovery; SystemExit when nothing matches
Main_Discover ==
    /\ pc = "main"
    /\ mats' = Discover(dir)
    /\ IF mats' = <<>>
       THEN /\ pc' = "exited"
            /\ exitStatus' = "fatal"
            /\ console' = Append(console, Line("FATAL", <<>>, NoExc, 0))
            /\ UNCHANGED total
       ELSE /\ pc' = "loop"
            /\ total' = 0
            /\ UNCHANGED <<exitStatus, console>>
    /\ UNCHANGED <<entry, dir, k, exc, attempts>>
    /\ UNCHANGED <<extractVars, fsVars, callVars>>

\* lines 91-93: the loop takes the next file and calls extract_from_mat
Main_NextFile ==
    /\ pc = "loop"
    /\ k < Len(mats)
    /\ k' = k + 1
    /\ path' = mats[k + 1]
    /\ attempts' = Append(attempts, mats[k + 1])
    /\ mat' = NoContainer
    /\ frames' = <<>>
    /\ chip_id' = <<>>
    /\ i' = 0
    /\ reads' = {}
    /\ pc' = "load"
    /\ UNCHANGED <<entry, dir, mats, total, console, exitStatus, exc>>
    /\ UNCHANGED <<fsVars, callVars>>

Main_OKCountsFiles ==
    /\ entry = "main"
    /\ pc = "return"
    /\ total' = total + 1
    /\ console' = Append(console, Line("OK", path, NoExc, 0))
    /\ pc' = "loop"
    /\ UNCHANGED <<entry, dir, mats, k, exitStatus, exc, attempts>>
    /\ UNCHANGED <<extractVars, fsVars, callVars>>

\* lines 94-95: extract_from_mat returned
Main_OK ==
    /\ entry = "main"
    /\ pc = "return"
    /\ total' = total + NFrames
    /\ console' = Append(console, Line("OK", path, NoExc, 0))
    /\ pc' = "loop"
    /\ UNCHANGED <<entry, dir, mats, k, exitStatus, exc, attempts>>
    /\ UNCHANGED <<extractVars, fsVars, callVars>>

Main_ExceptCleanup ==
    /\ entry = "main"
    /\ pc = "raise"
    /\ console' = Append(console, Line("ERRO", path, exc, 0))
    /\ exc' = NoExc
    /\ pc' = "loop"
    /\ disk' = [n \in DOMAIN disk \ {writes[a].name : a \in {b \in 1..Len(writes) : writes[b].file = path}}
                   |-> disk[n]]
    /\ UNCHANGED <<entry, dir, mats, k, total, exitStatus, attempts>>
    /\ UNCHANGED <<extractVars, outDir, writes, encIn, callVars>>

\* lines 96-97: extract_from_mat raised
Main_Except ==
    /\ entry = "main"
    /\ pc = "raise"
    /\ console' = Append(console, Line("ERRO", path, exc, 0))
    /\ exc' = NoExc
    /\ pc' = "loop"
    /\ UNCHANGED <<entry, dir, mats, k, total, exitStatus, attempts>>
    /\ UNCHANGED <<extractVars, fsVars, callVars>>

\* lines 99-100: the summary, after the last file
Main_Summary ==
    /\ pc = "loop"
    /\ k = Len(mats)
    /\ console' = console \o <<Line("TOTAL", <<>>, NoExc, total), Line("SAIDA", <<>>, NoExc, 0)>>
    /\ pc' = "exited"
    /\ exitStatus' = "ok"
    /\ UNCHANGED <<entry, dir, mats, k, total, exc, attempts>>
    /\ UNCHANGED <<extractVars, fsVars, callVars>>

-----------------------------------------------------------------------------
(* extract_from_mat *)

\* lines 50-77 on container m: what is raised (NoExc when the loop is reached)
Prepare(m) ==
    IF m.corrupt THEN LoadError
    ELSE LET key == FindKeyCaseInsensitive(m.items, WANTED)
         IN IF key = 0 THEN NotFoundError(DebugKeys(m.items))
            ELSE LET nf == NormalizeFrames(m.items[key].val)
                 IN IF ~nf.ok THEN FormatError
                    ELSE IF Len(nf.frames) < NFrames THEN TooFewError(Len(nf.frames))
                    ELSE NoExc

\* frames, when Prepare(m) raises nothing
FramesOf(m) == NormalizeFrames(m.items[FindKeyCaseInsensitive(m.items, WANTED)].val).frames

Containers == IF entry = "main" THEN ContainersMain ELSE ContainersDirect

\* lines 50-77: load, key lookup, frame list, count check, chip id, mkdir
Extract_Load ==
    /\ pc = "load"
    /\ \E m \in Containers :
        /\ mat' = m
        /\ IF Prepare(m) # NoExc
           THEN /\ exc' = Prepare(m)
                /\ pc' = "raise"
                /\ UNCHANGED <<frames, chip_id, i, outDir>>
           ELSE /\ frames' = FramesOf(m)
                /\ chip_id' = ChipId(path)
                /\ outDir' = TRUE
                /\ i' = 1
                /\ pc' = "frame"
                /\ exc' = exc
    /\ UNCHANGED <<entry, dir, console, exitStatus, attempts, path, reads>>
    /\ UNCHANGED <<mainVars, disk, writes, encIn, callVars>>

\* lines 79-82: one iteration of the loop over range(1, 6)
Extract_Frame ==
    /\ pc = "frame"
    /\ \E nanCast \in NanCasts, ioOk \in BOOLEAN :
        LET r == SaveJpg(FrameAt(frames, i), nanCast, ioOk)
            out_name == OutName(chip_id, i)
        IN /\ reads' = reads \cup {i}
           /\ encIn' = IF r.handed THEN r.x ELSE encIn
           /\ IF r.ok
              THEN /\ disk' = (out_name :> r.x) @@ disk
                   /\ writes' = Append(writes, [file |-> path, name |-> out_name, frame |-> i])
                   /\ i' = IF i < NFrames THEN i + 1 ELSE i
                   /\ pc' = IF i < NFrames THEN "frame" ELSE "return"
                   /\ exc' = exc
              ELSE /\ exc' = FrameError(r.err)
                   /\ pc' = "raise"
                   /\ UNCHANGED <<disk, writes, i>>
    /\ UNCHANGED <<entry, dir, console, exitStatus, attempts>>
    /\ UNCHANGED <<mainVars, path, mat, frames, chip_id, outDir, callVars>>

\* a direct call returns to the importer
Direct_Return ==
    /\ entry = "extract"
    /\ pc = "return"
    /\ pc' = "exited"
    /\ exitStatus' = "ok"
    /\ UNCHANGED <<entry, dir, console, exc, attempts>>
    /\ UNCHANGED <<mainVars, extractVars, fsVars, callVars>>

\* a direct call raises to the importer
Direct_Raise ==
    /\ entry = "extract"
    /\ pc = "raise"
    /\ pc' = "exited"
    /\ exitStatus' = "raised"
    /\ UNCHANGED <<entry, dir, console, exc, attempts>>
    /\ UNCHANGED <<mainVars, extractVars, fsVars, callVars>>

-----------------------------------------------------------------------------
(* direct calls of _save_jpg and _to_uint8 *)

SaveJpgCall ==
    /\ pc = "save"
    /\ \E nanCast \in NanCasts, ioOk \in BOOLEAN :
        LET r == SaveJpg(arg, nanCast, ioOk)
        IN /\ ret' = r
           /\ encIn' = IF r.handed THEN r.x ELSE encIn
           /\ disk' = IF r.ok THEN (JpgArg :> r.x) @@ disk ELSE disk
           /\ exitStatus' = IF r.ok THEN "ok" ELSE "raised"
    /\ pc' = "exited"
    /\ UNCHANGED <<entry, dir, console, exc, attempts, arg, outDir, writes>>
    /\ UNCHANGED <<mainVars, extractVars>>

ToUint8Call ==
    /\ pc = "uint8"
    /\ \E nanCast \in NanCasts :
        LET r == ToUint8(arg, nanCast)
        IN /\ ret' = r
           /\ exitStatus' = IF r.ok THEN "ok" ELSE "raised"
    /\ pc' = "exited"
    /\ UNCHANGED <<entry, dir, console, exc, attempts, arg>>
    /\ UNCHANGED <<mainVars, extractVars, fsVars>>

-----------------------------------------------------------------------------
(* Specifications *)

Next ==
    \/ Main_Discover
    \/ Main_NextFile
    \/ Extract_Load
    \/ Extract_Frame
    \/ Main_OK
    \/ Main_Except
    \/ Main_Summary

NextExtract ==
    \/ Extract_Load
    \/ Extract_Frame
    \/ Direct_Return
    \/ Direct_Raise

\* a run of the script
Spec == Init /\ [][Next]_vars

\* a run of the script that is not stopped from outside: the interpreter keeps
\* executing the single thread until it exits
FairSpec == Init /\ [][Next]_vars /\ WF_vars(Next)

\* a direct call of extract_from_mat
SpecExtract == InitExtract /\ [][NextExtract]_vars

\* a direct call of _save_jpg
SpecSave == InitSave /\ [][SaveJpgCall]_vars

\* a direct call of _to_uint8
SpecUint8 == InitUint8 /\ [][ToUint8Call]_vars

-----------------------------------------------------------------------------
(* Properties of _to_uint8 and _save_jpg, under SpecUint8 and SpecSave *)

Returned == pc = "exited"

\* C9: for an integer-typed array _to_uint8 returns, element by element, 0 for a
\* value below 0, 255 for a value above 255 and the value itself otherwise (no
\* wrap-around modulo 256, no scaling by 255), so every element is in 0..255.
C9_IntegerClamp ==
    (entry = "uint8" /\ Returned /\ arg.kind \in {"i", "u"}) =>
        /\ ret.ok
        /\ Len(ret.data) = Len(arg.data)
        /\ \A n \in 1..Len(arg.data) :
            /\ ret.data[n] \in 0..255
            /\ arg.data[n] < 0 => ret.data[n] = 0
            /\ arg.data[n] > 255 => ret.data[n] = 255
            /\ arg.data[n] \in 0..255 => ret.data[n] = arg.data[n]

C9_Witness ==
    /\ entry = "uint8" /\ Returned
    /\ arg.kind = "i"
    /\ arg.data = <<-1, 128, 256>>
    /\ ret.data = <<0, 128, 255>>

\* C8: the array _save_jpg hands to the encoder has the shape (H,W) when the
\* frame's shape is (H,W,1); the shape (H,W,C) when the frame's shape is (C,H,W)
\* with C in {1,3,4}, H > 32 and W > 32; and the frame's shape in every other case.
C8_ShapeCorrection ==
    (entry = "save" /\ Returned /\ ret.handed) =>
        LET s == arg.shape
            t == ret.x.shape
        IN IF Len(s) = 3 /\ s[3] = 1
           THEN t = <<s[1], s[2]>>
           ELSE IF Len(s) = 3 /\ s[1] \in {1, 3, 4} /\ s[2] > 32 /\ s[3] > 32
           THEN t = <<s[2], s[3], s[1]>>
           ELSE t = s

C8_Witness ==
    /\ entry = "save" /\ Returned
    /\ arg.shape = <<3, 64, 64>>
    /\ ret.handed
    /\ ret.x.shape = <<64, 64, 3>>

\* C10: the array handed to the JPEG encoder is never 3-dimensional with a last
\* axis of size 1.
C10_NoSingletonChannel ==
    ~(Len(encIn.shape) = 3 /\ encIn.shape[3] = 1)

-----------------------------------------------------------------------------
(* Properties of extract_from_mat, under SpecExtract *)

\* extract_from_mat ran to its end
Completed == pc = "return" \/ (pc = "exited" /\ exitStatus = "ok")

\* extract_from_mat raised
Raised == pc = "raise" \/ (pc = "exited" /\ exitStatus = "raised")

Loaded == pc # "load" /\ ~mat.corrupt

\* the chip id the naming rule gives each file name of the model
ExpectedChipId(name) ==
    CASE name = NChip2 -> <<"2">>
      [] name = NChip10 -> <<"1", "0">>
      [] name = NLower3 -> <<"3">>
      [] name = NUpper7 -> <<"7">>
      [] name = NChipA -> <<"C", "h", "i", "p", "_", "a">>
      [] name = NTxt7 -> <<"C", "h", "i", "p", "_", "7">>
      [] name = NNoDigits -> <<"C", "h", "i", "p", "_">>
      [] name = NTwoDots -> <<"C", "h", "i", "p", "_", "1", ".", "2">>
      [] name = NShort -> <<"x">>
      [] name = NNoSuffix -> <<"C", "h", "i", "p", "_", "5">>

\* imagem_<chip id>_<j>.jpg
ExpectedName(name, j) ==
    <<"i", "m", "a", "g", "e", "m", "_">> \o ExpectedChipId(name)
        \o <<"_", <<"1", "2", "3", "4", "5">>[j], ".", "j", "p", "g">>

\* the container has a key that is Icolor up to case
HasIcolor(m) == \E n \in 1..Len(m.items) : m.items[n].key \in {WANTED, KUpper, KLower}

\* the value of the first such key
IcolorOf(m) ==
    LET n == CHOOSE a \in 1..Len(m.items) :
                /\ m.items[a].key \in {WANTED, KUpper, KLower}
                /\ \A b \in 1..(a - 1) : m.items[b].key \notin {WANTED, KUpper, KLower}
    IN m.items[n].val

\* the number of elements of a collection
CountOf(v) ==
    IF Len(v.rows) = 0 THEN 0
    ELSE IF Len(v.rows) = 1 THEN Len(v.rows[1])
    ELSE Len(v.rows[1]) + Len(v.rows[2])

IsFrameError(e) == e.type \in {"SaveError", "UFuncTypeError", "ValueError"}

\* C1: when extract_from_mat completes, it has written exactly the five files
\* imagem_<chip id>_<j>.jpg, j = 1..5, file j from frame j, it has read the frames
\* 1..5 only, and the chip id is the digit group of a name of the form
\* Chip_<digits>.mat (in any case) and the stem of any other name; and a call on a
\* collection of at least five frames fails only at one of the first five frames.
C1_FiveJpegs ==
    entry = "extract" =>
        /\ Completed =>
            /\ CountOf(IcolorOf(mat)) >= 5
            /\ chip_id = ExpectedChipId(path)
            /\ Len(writes) = 5
            /\ \A j \in 1..5 :
                /\ writes[j] = [file |-> path, name |-> ExpectedName(path, j), frame |-> j]
                /\ ExpectedName(path, j) \in DOMAIN disk
                /\ disk[ExpectedName(path, j)].data = <<j>>
            /\ DOMAIN disk = {ExpectedName(path, j) : j \in 1..5}
            /\ reads = 1..5
        /\ (Raised /\ Loaded /\ HasIcolor(mat) /\ IcolorOf(mat).form # "scalar"
                /\ CountOf(IcolorOf(mat)) >= 5) =>
            /\ IsFrameError(exc)
            /\ i \in 1..5
            /\ reads = 1..i

C1_Witness ==
    /\ entry = "extract"
    /\ pc = "exited" /\ exitStatus = "ok"
    /\ path = NUpper7
    /\ chip_id = <<"7">>
    /\ Len(frames) = 6
    /\ Cardinality(DOMAIN disk) = 5

\* C5: extract_from_mat raises the 'Icolor not found' error exactly when no key of
\* the container is Icolor up to case; the error then lists the keys that do not
\* start with '__', in the container's order, and nothing was written or created.
C5_IcolorNotFound ==
    (entry = "extract" /\ Loaded) =>
        /\ (exc.type = "IcolorNotFound") <=> ~HasIcolor(mat)
        /\ exc.type = "IcolorNotFound" =>
            /\ \A n \in 1..Len(mat.items) :
                (\E a \in 1..Len(exc.keys) : exc.keys[a] = mat.items[n].key)
                    <=> ~(mat.items[n].key[1] = "_" /\ mat.items[n].key[2] = "_")
            /\ \A a \in 1..Len(exc.keys) : exc.keys[a] # KHeader
            /\ disk = <<>>
            /\ writes = <<>>
            /\ ~outDir

C5_Witness ==
    /\ entry = "extract"
    /\ pc = "exited" /\ exitStatus = "raised"
    /\ exc.type = "IcolorNotFound"
    /\ exc.keys = <<KUnder, KOther>>

\* C6: when the collection found under Icolor has n < 5 elements, extract_from_mat
\* raises the error that states n, having read no frame, written no file and not
\* created the output directory.
C6_TooFewFrames ==
    (entry = "extract" /\ Loaded /\ HasIcolor(mat)
        /\ IcolorOf(mat).form # "scalar" /\ CountOf(IcolorOf(mat)) < 5) =>
            /\ exc = [type |-> "TooFewFrames", keys |-> <<>>, count |-> CountOf(IcolorOf(mat))]
            /\ Raised
            /\ disk = <<>>
            /\ writes = <<>>
            /\ reads = {}
            /\ ~outDir

C6_Witness ==
    /\ entry = "extract"
    /\ pc = "exited" /\ exitStatus = "raised"
    /\ exc.type = "TooFewFrames"
    /\ exc.count = 3
    /\ CountOf(IcolorOf(mat)) = 3
    /\ disk = <<>>

-----------------------------------------------------------------------------
(* Properties of main, under Spec and FairSpec *)

\* the names of DirNames that Chip_*.mat matches, in lexicographic order
ExpectedOrder == <<NChip10, NChip2, NChipA>>

InDir(n) == n \in dir

ExpectedMats == SelectSeq(ExpectedOrder, InDir)

IsFileLine(l) == l.tag \in {"OK", "ERRO"}
IsOKLine(l) == l.tag = "OK"

\* the per-file lines of the console
FileLines == SelectSeq(console, IsFileLine)

\* the number of files whose processing has ended
Finished == IF pc \in {"main", "loop", "exited"} THEN k ELSE k - 1

SummaryPrinted ==
    /\ Len(console) >= 2
    /\ console[Len(console) - 1].tag = "TOTAL"
    /\ console[Len(console)].tag = "SAIDA"

C2_Safety ==
    (entry = "main" /\ pc # "main") =>
        /\ mats = ExpectedMats
        /\ k \in 0..Len(mats)
        /\ attempts = SubSeq(mats, 1, k)
        /\ Len(FileLines) = Finished
        /\ \A n \in 1..Len(FileLines) :
            /\ FileLines[n].file = mats[n]
            /\ FileLines[n].tag = "ERRO" <=> FileLines[n].exc # NoExc
        /\ pc \in {"load", "frame", "return", "raise"} => path = mats[k]
        /\ (pc = "exited" /\ mats # <<>>) =>
            /\ k = Len(mats)
            /\ exitStatus = "ok"
            /\ SummaryPrinted

\* C2: the discovered files are attempted once each, in lexicographic order; each
\* ended file has exactly one line, [OK] or [ERRO], naming it, an [ERRO] line
\* carrying the exception; and once the loop is entered the run reaches the
\* summary, whatever the files raise.
C2_BatchContinues ==
    /\ []C2_Safety
    /\ (entry = "main" /\ pc = "loop") ~> (pc = "exited" /\ exitStatus = "ok" /\ SummaryPrinted)

C2_Witness ==
    /\ entry = "main"
    /\ pc = "exited"
    /\ mats = <<NChip10, NChip2>>
    /\ Len(console) = 4
    /\ console[1].tag = "ERRO" /\ console[1].file = NChip10
    /\ console[2].tag = "OK" /\ console[2].file = NChip2

\* C3: the run ends with the fatal exit exactly when no file of the directory
\* matches Chip_*.mat; then no file was attempted, nothing was written, the output
\* directory was not created and no summary was printed; any other run ends
\* normally, after the summary.
C3_FatalIffNoFiles ==
    entry = "main" =>
        /\ exitStatus = "fatal" <=> (pc = "exited" /\ dir \cap {NChip2, NChip10, NChipA} = {})
        /\ exitStatus = "fatal" =>
            /\ attempts = <<>>
            /\ disk = <<>>
            /\ writes = <<>>
            /\ ~outDir
            /\ \A n \in 1..Len(console) : console[n].tag \notin {"OK", "ERRO", "TOTAL", "SAIDA"}
        /\ (pc = "exited" /\ exitStatus # "fatal") =>
            /\ exitStatus = "ok"
            /\ SummaryPrinted
            /\ Len(attempts) >= 1

C3_Witness ==
    /\ entry = "main"
    /\ exitStatus = "fatal"
    /\ dir = {NLower3}
    /\ console = <<Line("FATAL", <<>>, NoExc, 0)>>

\* the number of writes made for file f
WritesOf(f) == Cardinality({a \in 1..Len(writes) : writes[a].file = f})

\* C4: the running total is always 5 times the number of files logged [OK], a file
\* is logged [OK] exactly when its five frames were written, and the summary prints
\* that total.
C4_RunningTotal ==
    (entry = "main" /\ pc # "main") =>
        /\ total = 5 * Len(SelectSeq(console, IsOKLine))
        /\ \A n \in 1..Len(FileLines) :
            FileLines[n].tag = "OK" <=> WritesOf(FileLines[n].file) = 5
        /\ SummaryPrinted => console[Len(console) - 1].total = total

C4_Witness ==
    /\ entry = "main"
    /\ pc = "exited"
    /\ Len(mats) = 2
    /\ total = 5
    /\ Len(writes) = 8
    /\ console[Len(console) - 1].total = 5

\* the file being processed, or last processed, failed in the frame loop, at frame i
FailedAtFrame ==
    /\ entry = "main"
    /\ frames # <<>>
    /\ \/ pc = "raise"
       \/ pc \in {"loop", "exited"} /\ k >= 1 /\ FileLines[k].tag = "ERRO"

C7_State ==
    FailedAtFrame =>
        /\ i \in 1..5
        /\ \A j \in 1..(i - 1) :
            /\ ExpectedName(path, j) \in DOMAIN disk
            /\ disk[ExpectedName(path, j)].data = <<j>>
        /\ \A j \in i..5 : ExpectedName(path, j) \notin DOMAIN disk
        /\ WritesOf(path) = i - 1
        /\ total = 5 * Len(SelectSeq(console, IsOKLine))
        /\ pc # "raise" => FileLines[k].file = path

C7_Step ==
    /\ \A n \in DOMAIN disk : n \in DOMAIN disk' /\ disk'[n] = disk[n]
    /\ outDir => outDir'
    /\ pc = "raise" => total' = total

\* C7: when frame i of a file raises, the files of its frames 1..i-1 are on disk and
\* those of its frames i..5 are not, the file is logged [ERRO], the total is what
\* it was, and no step of the run ever removes or changes a written file.
C7_NoRollback == []C7_State /\ [][C7_Step]_vars

C7_Witness ==
    /\ FailedAtFrame
    /\ pc = "loop"
    /\ k = 2
    /\ i = 3
    /\ total = 5
    /\ Cardinality(DOMAIN disk) = 7

=============================================================================
